---------------------------- MODULE Spec2Model ----------------------------
(***************************************************************************)
(* Dense sets of integers (package dense: cell63 / Set63) of lvd.go,       *)
(* modelled as word arithmetic on cells and recursive walks over cell      *)
(* sequences.                                                              *)
(*                                                                         *)
(* The code packs a cell into a uint64 and its universe is [0, 2^63).      *)
(* The model keeps the same packing in a word of TopLevel+1 bits, with     *)
(* universe [0, 2^TopLevel): every <<, - and + is reduced modulo the word  *)
(* size exactly where Go's uint64 arithmetic wraps.                        *)
(***************************************************************************)
EXTENDS Integers, Sequences, FiniteSets, TLC

\* Level of the universe cell (63 in the code: unity63 = 1 << 63).
TopLevel == 3

\* Initial operands are built from membership masks over [0, MaskBits).
MaskBits == 5

\* NewSet63 argument lists: at most MaxLen elements, each in 0..MaxElem.
MaxLen == 3

MaxElem == 7

\* Operands of the three-operand laws are built from masks over [0, LawBits).
LawBits == 3

\* Receivers of ForEach and ForEachInterval are built from masks over
\* [0, IterBits).
IterBits == 7

\* The shared Header's numrecs before the calls of Create is in
\* -1 .. MaxNumRecs.
MaxNumRecs == 3

\* A Trie is built by at most MaxPuts calls of Put.
MaxPuts == 3

\* Receivers of Cover are built from masks over [0, CoverBits).
CoverBits == 7

\* Cover's maxSize ranges over -1 .. MaxSizeArg.
MaxSizeArg == 4

--------------------------------------------------------------------------
(* uint64 arithmetic, scaled to TopLevel+1 bits *)

Word == 2^(TopLevel + 1)

u64(x) == ((x % Word) + Word) % Word

\* int64(x) of an unsigned word
i64(x) == IF x >= Word \div 2 THEN x - Word ELSE x

Words == 0 .. (Word - 1)

RECURSIVE bitAnd(_, _)
bitAnd(x, y) ==
    IF x = 0 \/ y = 0 THEN 0
    ELSE 2 * bitAnd(x \div 2, y \div 2) + (x % 2) * (y % 2)

RECURSIVE bitXor(_, _)
bitXor(x, y) ==
    IF x = 0 THEN y
    ELSE IF y = 0 THEN x
    ELSE 2 * bitXor(x \div 2, y \div 2) + ((x + y) % 2)

\* x & y and x ^ y, tabulated once over all pairs of words
AndTable == [x \in Words |-> [y \in Words |-> bitAnd(x, y)]]

XorTable == [x \in Words |-> [y \in Words |-> bitXor(x, y)]]

BitAnd(x, y) == AndTable[x][y]

BitXor(x, y) == XorTable[x][y]

BitOr(x, y) == x + y - BitAnd(x, y)

BitNot(x) == Word - 1 - x

Neg(x) == u64(0 - x)

Shl(x, k) == u64(x * 2^k)

Shr(x, k) == x \div 2^k

--------------------------------------------------------------------------
(* cell63 *)

unity63 == Shl(1, TopLevel)

lsb(c) == BitAnd(c, Neg(c))

contains(c, d) ==
    BitAnd(BitXor(c, d), BitNot(u64(Shl(BitAnd(c, Neg(c)), 1) - 1))) = 0

\* mutant: every cell is its own sibling
sibling_Self(c) == c

sibling(c) == BitXor(c, Shl(BitAnd(c, Neg(c)), 1))

parent(c) ==
    LET p == BitAnd(c, Neg(c))
    IN  BitOr(BitXor(c, p), Shl(p, 1))

singleton(e) == BitOr(u64(e * 2), 1)

begin(c) == Shr(u64(c - BitAnd(c, Neg(c))), 1)

end(c) == u64(Shr(u64(c - BitAnd(c, Neg(c))), 1) + BitAnd(c, Neg(c)))

\* c.children(): the two halves of c, as the pair <<left, right>>
children(c) ==
    LET p  == Shr(BitAnd(c, Neg(c)), 1)
        cp == BitOr(c, p)
    IN  <<BitAnd(cp, BitNot(Shl(p, 1))), BitOr(cp, Shl(p, 1))>>

--------------------------------------------------------------------------
(* Set63: a sequence of cells.  A nil slice and an empty slice are both    *)
(* <<>>: every non-nil slice the code tests against nil (headx's s[:i],    *)
(* i >= 1) is non-empty.  A panic is the result PanicSet.                  *)

PanicSet == <<-1>>

Front(ss) == SubSeq(ss, 1, Len(ss) - 1)

RECURSIVE insertSorted(_, _)
insertSorted(sq, x) ==
    IF sq = <<>> THEN <<x>>
    ELSE IF x < Head(sq) THEN <<x>> \o sq
    ELSE <<Head(sq)>> \o insertSorted(Tail(sq), x)

\* sort.Sort(int64Slice(elem)): the ascending permutation of elem
RECURSIVE sortInt64(_)
sortInt64(sq) ==
    IF sq = <<>> THEN <<>> ELSE insertSorted(sortInt64(Tail(sq)), Head(sq))

\* for l >= 0 && e.contains(ss[l]) { ss, l = ss[:l], l-1 }
RECURSIVE dropContained(_, _)
dropContained(ss, e) ==
    IF Len(ss) > 0 /\ contains(e, ss[Len(ss)])
    THEN dropContained(Front(ss), e)
    ELSE ss

\* for l >= 0 && ss[l]^e^e.lsb()<<1 == 0 { pop; e = e.parent() }; append e
RECURSIVE foldSiblings(_, _)
foldSiblings(ss, e) ==
    IF Len(ss) > 0 /\ BitXor(BitXor(ss[Len(ss)], e), Shl(lsb(e), 1)) = 0
    THEN foldSiblings(Front(ss), parent(e))
    ELSE Append(ss, e)

\* the body of NewSet63's loop over the sorted elements
RECURSIVE addElems(_, _)
addElems(ss, elem) ==
    IF elem = <<>> THEN ss
    ELSE LET e == singleton(Head(elem))
         IN  IF Len(ss) > 0 /\ contains(ss[Len(ss)], e)
             THEN addElems(ss, Tail(elem))
             ELSE addElems(foldSiblings(dropContained(ss, e), e), Tail(elem))

\* mutant: the sign check looks at the caller's first element, before the sort
NewSet63_CheckFirst(elem) ==
    IF Len(elem) = 0 THEN <<>>
    ELSE IF elem[1] < 0 THEN PanicSet ELSE addElems(<<>>, sortInt64(elem))

NewSet63(elem) ==
    IF Len(elem) = 0 THEN <<>>
    ELSE LET sorted == sortInt64(elem)
         IN  IF sorted[1] < 0 THEN PanicSet ELSE addElems(<<>>, sorted)

\* the index at which headx's loop stops (the number of cells of the run)
RECURSIVE runLen(_, _)
\* mutant: the run is cut after its first cell
runLen_One(s, i) == i

runLen(s, i) ==
    IF i < Len(s) /\ end(s[i]) = begin(s[i + 1]) THEN runLen(s, i + 1) ELSE i

headx(s) ==
    IF Len(s) = 0 THEN [sh |-> <<>>, st |-> s, b |-> 0, e |-> 0]
    ELSE LET i == runLen(s, 1)
         IN  [sh |-> SubSeq(s, 1, i), st |-> SubSeq(s, i + 1, Len(s)),
              b |-> begin(s[1]), e |-> end(s[i])]

RECURSIVE climb(_, _, _)

\* mutant: the singleton is appended without walking up to its parents
climb_NoWalk(c, min, max) == c

\* interval's inner loop: walk up while the parent starts at min and fits
climb(c, min, max) ==
    LET p == parent(c)
    IN  IF p # 0 /\ begin(p) = min /\ end(p) <= max
        THEN climb(p, min, max)
        ELSE c

RECURSIVE interval(_, _)
interval(min, max) ==
    IF min < max
    THEN LET c == climb(singleton(i64(min)), min, max)
         IN  <<c>> \o interval(end(c), max)
    ELSE <<>>

\* mutant: the closed upper end is passed on as if it were exclusive
Interval_HalfOpen(min, max) ==
    IF min < 0 THEN PanicSet
    ELSE IF min > max THEN <<>>
    ELSE interval(u64(min), u64(max))

Interval(min, max) ==
    IF min < 0 THEN PanicSet
    ELSE IF min > max THEN <<>>
    ELSE interval(u64(min), u64(u64(max) + 1))

\* mutant: an extended candidate run is appended as if it were verbatim
emit_Verbatim(run, b, e) == run

\* "if ss != nil { append ss... } else { append interval(sb, se)... }"
emit(run, b, e) == IF run # <<>> THEN run ELSE interval(b, e)

RECURSIVE unionLoop(_, _, _, _, _, _, _, _, _)
unionLoop(ss, s, sb, se, tt, t, tb, te, r) ==
    IF sb # se /\ tb # te
    THEN IF tb <= sb /\ se <= te
         THEN LET h == headx(s)
              IN  unionLoop(h.sh, h.st, h.b, h.e, tt, t, tb, te, r)
         ELSE IF sb <= tb /\ te <= se
         THEN LET h == headx(t)
              IN  unionLoop(ss, s, sb, se, h.sh, h.st, h.b, h.e, r)
         ELSE IF se < tb
         THEN LET h == headx(s)
              IN  unionLoop(h.sh, h.st, h.b, h.e, tt, t, tb, te,
                            r \o emit(ss, sb, se))
         ELSE IF te < sb
         THEN LET h == headx(t)
              IN  unionLoop(ss, s, sb, se, h.sh, h.st, h.b, h.e,
                            r \o emit(tt, tb, te))
         ELSE IF sb <= tb /\ se <= te
         THEN LET h == headx(s)
              IN  unionLoop(h.sh, h.st, h.b, h.e, <<>>, t, sb, te, r)
         ELSE IF tb <= sb /\ te <= se
         THEN LET h == headx(t)
              IN  unionLoop(<<>>, s, tb, se, h.sh, h.st, h.b, h.e, r)
         ELSE PanicSet
    ELSE LET r1 == IF sb # se THEN r \o emit(ss, sb, se) \o s ELSE r
         IN  IF tb # te THEN r1 \o emit(tt, tb, te) \o t ELSE r1

\* mutant: the empty argument is returned instead of the receiver
Union_EmptyT(s, t) ==
    IF Len(t) = 0 THEN t
    ELSE IF Len(s) = 0 THEN t
    ELSE LET hs == headx(s)
             ht == headx(t)
         IN  unionLoop(hs.sh, hs.st, hs.b, hs.e, ht.sh, ht.st, ht.b, ht.e, <<>>)

Union(s, t) ==
    IF Len(t) = 0 THEN s
    ELSE IF Len(s) = 0 THEN t
    ELSE LET hs == headx(s)
             ht == headx(t)
         IN  unionLoop(hs.sh, hs.st, hs.b, hs.e, ht.sh, ht.st, ht.b, ht.e, <<>>)

RECURSIVE intersectionLoop(_, _, _, _, _, _, _, _, _)
intersectionLoop(ss, s, sb, se, tt, t, tb, te, r) ==
    IF sb # se /\ tb # te
    THEN IF tb <= sb /\ se <= te
         THEN LET h == headx(s)
              IN  intersectionLoop(h.sh, h.st, h.b, h.e, tt, t, tb, te,
                                   r \o emit(ss, sb, se))
         ELSE IF sb <= tb /\ te <= se
         THEN LET h == headx(t)
              IN  intersectionLoop(ss, s, sb, se, h.sh, h.st, h.b, h.e,
                                   r \o emit(tt, tb, te))
         ELSE IF se <= tb
         THEN LET h == headx(s)
              IN  intersectionLoop(h.sh, h.st, h.b, h.e, tt, t, tb, te, r)
         ELSE IF te <= sb
         THEN LET h == headx(t)
              IN  intersectionLoop(ss, s, sb, se, h.sh, h.st, h.b, h.e, r)
         ELSE IF sb <= tb /\ se <= te
         THEN LET h == headx(s)
              IN  intersectionLoop(h.sh, h.st, h.b, h.e, <<>>, t, se, te,
                                   r \o interval(tb, se))
         ELSE IF tb <= sb /\ te <= se
         THEN LET h == headx(t)
              IN  intersectionLoop(<<>>, s, te, se, h.sh, h.st, h.b, h.e,
                                   r \o interval(sb, te))
         ELSE PanicSet
    ELSE r

\* mutant: the receiver is returned when the argument is empty
Intersection_ReturnsS(s, t) ==
    IF Len(t) = 0 THEN s
    ELSE IF Len(s) = 0 THEN s
    ELSE LET hs == headx(s)
             ht == headx(t)
         IN  intersectionLoop(hs.sh, hs.st, hs.b, hs.e,
                              ht.sh, ht.st, ht.b, ht.e, <<>>)

Intersection(s, t) ==
    IF Len(t) = 0 THEN t
    ELSE IF Len(s) = 0 THEN s
    ELSE LET hs == headx(s)
             ht == headx(t)
         IN  intersectionLoop(hs.sh, hs.st, hs.b, hs.e,
                              ht.sh, ht.st, ht.b, ht.e, <<>>)

\* s.search(i, j, c); i, j and the result are the code's 0-based indices
RECURSIVE search(_, _, _, _)
search(s, i, j, c) ==
    IF i < j
    THEN LET h == i + (j - i) \div 2
         IN  IF s[h + 1] < c THEN search(s, h + 1, j, c) ELSE search(s, i, h, c)
    ELSE i

(* Intersects: "true", "false", or "panic" where the code indexes a slice  *)
(* out of range (s[0] of an empty s, t[i] with i = len(t), and the same    *)
(* with s and t exchanged).                                                *)
RECURSIVE intersectsOuter(_, _)
RECURSIVE intersectsFirst(_, _)
RECURSIVE intersectsSecond(_, _)
intersectsFirst(s, t) ==
    IF Len(s) <= Len(t)
    THEN IF Len(s) = 0 THEN "panic"
         ELSE LET i == search(t, 0, Len(t), s[1])
              IN  IF i >= Len(t) THEN "panic"
                  ELSE IF contains(t[i + 1], s[1]) \/ contains(s[1], t[i + 1])
                  THEN "true"
                  ELSE intersectsFirst(Tail(s), SubSeq(t, i + 1, Len(t)))
    ELSE IF Len(s) = 0 THEN "false"
    ELSE intersectsSecond(s, t)

intersectsSecond(s, t) ==
    IF Len(t) <= Len(s)
    THEN IF Len(t) = 0 THEN "panic"
         ELSE LET i == search(s, 0, Len(s), t[1])
              IN  IF i >= Len(s) THEN "panic"
                  ELSE IF contains(t[1], s[i + 1]) \/ contains(s[i + 1], t[1])
                  THEN "true"
                  ELSE intersectsSecond(SubSeq(s, i + 1, Len(s)), Tail(t))
    ELSE intersectsOuter(s, t)

intersectsOuter(s, t) ==
    IF Len(s) > 0 /\ Len(t) > 0 THEN intersectsFirst(s, t) ELSE "false"

Intersects(s, t) == intersectsOuter(s, t)

RECURSIVE complementLoop(_, _, _, _, _)

\* mutant: b is not advanced to the end of the run just passed
complementLoop_StaleB(s, sb, se, b, r) ==
    IF sb # se /\ b < unity63
    THEN LET h == headx(s)
         IN  complementLoop(h.st, h.b, h.e, b, r \o interval(b, sb))
    ELSE [b |-> b, r |-> r]

\* Complement's loop; yields b and r as they are when the loop ends
complementLoop(s, sb, se, b, r) ==
    IF sb # se /\ b < unity63
    THEN LET h == headx(s)
         IN  complementLoop(h.st, h.b, h.e, se, r \o interval(b, sb))
    ELSE [b |-> b, r |-> r]

\* mutant: the gap after the last run is not appended
Complement_NoTail(s) ==
    LET h == headx(s)
        x == complementLoop(h.st, h.b, h.e, 0, <<>>)
    IN  x.r

Complement(s) ==
    LET h == headx(s)
        x == complementLoop(h.st, h.b, h.e, 0, <<>>)
    IN  IF x.b < unity63 THEN x.r \o interval(x.b, unity63) ELSE x.r

\* mutant: the cell before the insertion point is not looked at
Contains_NoPrev(s, elem) ==
    IF elem >= 0
    THEN LET i == search(s, 0, Len(s), singleton(elem))
         IN  i < Len(s) /\ begin(s[i + 1]) <= u64(elem)
    ELSE FALSE

Contains(s, elem) ==
    IF elem >= 0
    THEN LET i == search(s, 0, Len(s), singleton(elem))
         IN  \/ i > 0 /\ u64(elem) < end(s[i])
             \/ i < Len(s) /\ begin(s[i + 1]) <= u64(elem)
    ELSE FALSE

IsEmpty(s) == Len(s) = 0

RECURSIVE equalFrom(_, _, _)
equalFrom(s, t, i) ==
    IF i > Len(s) THEN TRUE
    ELSE IF s[i] # t[i] THEN FALSE
    ELSE equalFrom(s, t, i + 1)

\* mutant: sets of the same number of cells are equal
Equal_SameLen(s, t) == Len(s) = Len(t)

Equal(s, t) == IF Len(s) # Len(t) THEN FALSE ELSE equalFrom(s, t, 1)

RECURSIVE Count(_)

\* mutant: every cell counts as one element
Count_Cells(s) == IF s = <<>> THEN 0 ELSE u64(1 + Count(Tail(s)))

Count(s) == IF s = <<>> THEN 0 ELSE u64(lsb(Head(s)) + Count(Tail(s)))

\* mutant: the inner loop of ForEach runs up to and including v.end()
inCell_Closed(v, i) == i <= end(v)

\* the condition of ForEach's inner loop
inCell(v, i) == i < end(v)

\* ForEach's two loops, from the inner loop's test at element i of cell
\* number k (0-based) to the next call of the visitor, or to the end
RECURSIVE seek(_, _, _)
seek(s, k, i) ==
    IF inCell(s[k + 1], i) THEN [done |-> FALSE, k |-> k, i |-> i]
    ELSE IF k + 1 < Len(s) THEN seek(s, k + 1, begin(s[k + 2]))
    ELSE [done |-> TRUE, k |-> 0, i |-> 0]

\* mutant: the visitor's answer is ignored
resume_Ignore(s, k, i, ret) == seek(s, k, u64(i + 1))

\* ForEach after the visitor answered ret for element i of cell number k:
\* return on false, else i++ and the loops up to the next call
resume(s, k, i, ret) ==
    IF ret THEN seek(s, k, u64(i + 1))
    ELSE [done |-> TRUE, k |-> 0, i |-> 0]

\* ForEachInterval with a visitor that returns true: the calls f(b, e) made
RECURSIVE forEachIntervalLoop(_, _, _)
forEachIntervalLoop(s, sb, se) ==
    IF sb # se
    THEN LET h == headx(s)
         IN  <<<<i64(sb), i64(u64(se - 1))>>>> \o forEachIntervalLoop(h.st, h.b, h.e)
    ELSE <<>>

ForEachInterval(s) ==
    LET h == headx(s)
    IN  forEachIntervalLoop(h.st, h.b, h.e)

RECURSIVE unnormalizedFrom(_, _)
unnormalizedFrom(s, i) ==
    IF i >= Len(s) THEN <<>>
    ELSE (IF \/ s[i] >= s[i + 1]
             \/ contains(s[i + 1], s[i])
             \/ contains(s[i], s[i + 1])
             \/ sibling(s[i + 1]) = s[i]
          THEN <<s[i + 1]>> ELSE <<>>) \o unnormalizedFrom(s, i + 1)

unnormalized(s) == unnormalizedFrom(s, 1)

\* the test helper set6toSet63: the set of a membership mask, given here as
\* the set of its one-bits; the elements are appended in increasing order
RECURSIVE ascending(_)
ascending(m) ==
    IF m = {} THEN <<>>
    ELSE LET x == CHOOSE y \in m : \A z \in m : y <= z
         IN  <<x>> \o ascending(m \ {x})

set6toSet63(m) == NewSet63(ascending(m))

--------------------------------------------------------------------------
(* Cover: the shape tree, the heap of leaves (container/heap driven by     *)
(* pQ's Len, Less, Swap, Push and Pop) and the collection of the result.   *)
(* Indices into the shape array and into the heap are the code's 0-based   *)
(* ints; -1 is the code's "none".                                          *)

cand(c, w, il, ir, ip, g) ==
    [c |-> c, w |-> w, il |-> il, ir |-> ir, ip |-> ip, g |-> g]

waste(cd) == u64(lsb(cd.c) - cd.w)

isLeaf(cd) == cd.il = -1

\* the loop of shape that widens a single cell up to minGrain
RECURSIVE grow(_, _)
grow(cc, minGrain) ==
    IF lsb(cc) < minGrain
    THEN LET p == parent(cc)
         IN  IF p = 0 THEN cc ELSE grow(p, minGrain)
    ELSE cc

\* s.shape(i, j, c, minGrain, sh): the weight returned and the array after
RECURSIVE shape(_, _, _, _, _, _)
shape(s, i, j, c, minGrain, sh) ==
    IF i = j THEN [n |-> 0, sh |-> sh]
    ELSE IF lsb(c) < u64(minGrain * 2)
    THEN LET w == Count(SubSeq(s, i + 1, j))
         IN  [n |-> w, sh |-> Append(sh, cand(c, w, -1, -1, -1, 0))]
    ELSE IF i + 1 = j
    THEN LET w == lsb(s[i + 1])
         IN  [n |-> w,
              sh |-> Append(sh, cand(grow(s[i + 1], minGrain), w, -1, -1, -1, 0))]
    ELSE LET ch == children(c)
             m  == search(s, i, j, c)
             L  == shape(s, i, m, ch[1], minGrain, sh)
             il == Len(L.sh) - 1
             R  == shape(s, m, j, ch[2], minGrain, L.sh)
             ir == Len(R.sh) - 1
         IN  IF L.n # 0 /\ R.n # 0
             THEN LET nn == cand(c, u64(L.n + R.n), il, ir, -1, 0)
                      g  == u64(u64(waste(nn) - waste(R.sh[il + 1]))
                                - waste(R.sh[ir + 1]))
                      ip == Len(R.sh)
                  IN  [n |-> u64(L.n + R.n),
                       sh |-> Append([R.sh EXCEPT ![il + 1].ip = ip,
                                                  ![il + 1].g = g,
                                                  ![ir + 1].ip = ip,
                                                  ![ir + 1].g = g], nn)]
             ELSE [n |-> u64(L.n + R.n), sh |-> R.sh]

\* pq.Less(i, j) on heap positions i, j
Less(q, i, j) ==
    LET gi == q.shape[q.leaves[i + 1] + 1].g
        gj == q.shape[q.leaves[j + 1] + 1].g
    IN  IF gi # gj THEN gi < gj ELSE i < j

\* pq.Swap(i, j)
SwapLeaves(q, i, j) ==
    [q EXCEPT !.leaves[i + 1] = q.leaves[j + 1], !.leaves[j + 1] = q.leaves[i + 1]]

\* container/heap up(h, j)
RECURSIVE up(_, _)
up(q, j) ==
    LET i == IF j = 0 THEN 0 ELSE (j - 1) \div 2
    IN  IF i = j \/ ~Less(q, j, i) THEN q
        ELSE up(SwapLeaves(q, i, j), i)

\* container/heap down(h, i, n)
RECURSIVE down(_, _, _)
down(q, i, nn) ==
    LET j1 == 2 * i + 1
    IN  IF j1 >= nn THEN q
        ELSE LET j == IF j1 + 1 < nn /\ Less(q, j1 + 1, j1) THEN j1 + 1 ELSE j1
             IN  IF ~Less(q, j, i) THEN q
                 ELSE down(SwapLeaves(q, i, j), j, nn)

\* heap.Push(&pq, x): pq.Push appends, then up
heapPush(q, x) ==
    up([q EXCEPT !.leaves = Append(q.leaves, x)], Len(q.leaves))

\* heap.Pop(&pq): swap first and last, down, then pq.Pop cuts the last off
heapPop(q) ==
    LET nn == Len(q.leaves) - 1
        d  == down(SwapLeaves(q, 0, nn), 0, nn)
    IN  [x |-> d.leaves[nn + 1], pq |-> [d EXCEPT !.leaves = Front(d.leaves)]]

\* the loop of Cover that pushes every leaf of the shape, in array order
RECURSIVE pushLeaves(_, _)
pushLeaves(q, i) ==
    IF i >= Len(q.shape) THEN q
    ELSE IF isLeaf(q.shape[i + 1]) THEN pushLeaves(heapPush(q, i), i + 1)
    ELSE pushLeaves(q, i + 1)

\* pq.blowup(ip), ip # 0
blowup(q, ip) ==
    LET p == q.shape[ip + 1]
    IN  [q EXCEPT !.shape[p.il + 1].c = 0,
                  !.shape[p.ir + 1].c = 0,
                  !.shape[ip + 1].il = -1,
                  !.shape[ip + 1].ir = -1]

\* pq.getLeaves(i, &ss): the cells appended; PanicSet where the code indexes
\* the shape array out of range
RECURSIVE getLeaves(_, _)
getLeaves(q, i) ==
    IF i < 0 \/ i >= Len(q.shape) THEN PanicSet
    ELSE IF q.shape[i + 1].c # 0 /\ isLeaf(q.shape[i + 1])
    THEN <<q.shape[i + 1].c>>
    ELSE LET L == getLeaves(q, q.shape[i + 1].il)
             R == getLeaves(q, q.shape[i + 1].ir)
         IN  IF L = PanicSet \/ R = PanicSet THEN PanicSet ELSE L \o R

--------------------------------------------------------------------------
(* Trie: a node is a record of suffix (a sequence of bytes), value (0 is   *)
(* nil), children (a sequence of nodes, <<>> is the nil slice; the code    *)
(* makes no empty non-nil slice) and base (a byte).                        *)

ZeroTrie == [suffix |-> <<>>, value |-> 0, children |-> <<>>, base |-> 0]

RECURSIVE commonPrefixFrom(_, _, _)
commonPrefixFrom(a, b, i) ==
    IF i < Len(a) /\ i < Len(b) /\ a[i + 1] = b[i + 1]
    THEN commonPrefixFrom(a, b, i + 1)
    ELSE i

commonPrefix(a, b) == commonPrefixFrom(a, b, 0)

\* the loop of Put that doubles the child array until byte c falls in
\* [newbase, newbase + newlen); newbase &= ^byte(newlen - 1) clears the low
\* bits of newbase, newlen being a power of two up to 256
RECURSIVE widen(_, _, _)
widen(c, newbase, newlen) ==
    IF c < newbase \/ c >= newbase + newlen
    THEN widen(c, newbase - (newbase % (2 * newlen)), 2 * newlen)
    ELSE [base |-> newbase, len |-> newlen]

\* Put lines 67-83: the node with a child slot for byte c
withSlot(t, c) ==
    IF Len(t.children) = 0
    THEN [t EXCEPT !.children = <<ZeroTrie>>, !.base = c]
    ELSE LET w == widen(c, t.base, Len(t.children))
         IN  IF w.len # Len(t.children)
             THEN [t EXCEPT
                     !.children =
                        [i \in 1 .. w.len |->
                            IF i - 1 >= t.base - w.base
                               /\ i - 1 < t.base - w.base + Len(t.children)
                            THEN t.children[i - (t.base - w.base)]
                            ELSE ZeroTrie],
                     !.base = w.base]
             ELSE t

\* Put line 59: the node split at s
split(t, s) ==
    [suffix   |-> SubSeq(t.suffix, 1, s),
     value    |-> 0,
     children |-> <<[suffix   |-> SubSeq(t.suffix, s + 2, Len(t.suffix)),
                     value    |-> t.value,
                     children |-> t.children,
                     base     |-> t.base]>>,
     base     |-> t.suffix[s + 1]]

\* t.Put(key, value): the node after the call
RECURSIVE Put(_, _, _)
Put(t, key, value) ==
    IF t.children = <<>> /\ t.value = 0
    THEN [t EXCEPT !.suffix = key, !.value = value]
    ELSE LET s  == commonPrefix(t.suffix, key)
             t1 == IF s < Len(t.suffix) THEN split(t, s) ELSE t
         IN  IF s = Len(key) THEN [t1 EXCEPT !.value = value]
             ELSE LET t2 == withSlot(t1, key[s + 1])
                      i  == key[s + 1] - t2.base + 1
                  IN  [t2 EXCEPT !.children[i] =
                          Put(t2.children[i], SubSeq(key, s + 2, Len(key)), value)]

\* the result of Get where the code indexes t.children out of range
GetPanic == -1

\* t.Get(key): the value, 0 for nil
RECURSIVE Get(_, _)
Get(t, key) ==
    LET s == commonPrefix(t.suffix, key)
    IN  IF s < Len(t.suffix) THEN 0
        ELSE IF s = Len(key) THEN t.value
        ELSE IF key[s + 1] < t.base \/ key[s + 1] > t.base + Len(t.children)
        THEN 0
        ELSE IF key[s + 1] - t.base >= Len(t.children) THEN GetPanic
        ELSE Get(t.children[key[s + 1] - t.base + 1],
                 SubSeq(key, s + 2, Len(key)))

\* t.forEach(f, buf) with a visitor that returns true: the calls f(key,
\* value) made; buf is the buffer's content on entry, and the byte the loop
\* increments at position l is base + i for child number i
RECURSIVE forEach(_, _)
RECURSIVE forEachChildren(_, _, _)
\* mutant: the byte at position l is never incremented
forEachChildren_SameByte(t, buf, i) ==
    IF i >= Len(t.children) THEN <<>>
    ELSE forEach(t.children[i + 1], buf \o <<t.base>>)
            \o forEachChildren(t, buf, i + 1)

forEachChildren(t, buf, i) ==
    IF i >= Len(t.children) THEN <<>>
    ELSE forEach(t.children[i + 1], buf \o <<(t.base + i) % 256>>)
            \o forEachChildren(t, buf, i + 1)

forEach(t, buf) ==
    IF t.value # 0 \/ t.children # <<>>
    THEN (IF t.value # 0 THEN <<<<buf \o t.suffix, t.value>>>> ELSE <<>>)
            \o forEachChildren(t, buf \o t.suffix, 0)
    ELSE <<>>

--------------------------------------------------------------------------
(* State: operand registers, the last operation and what it returned *)

VARIABLES
    elem,   \* the caller's element list handed to NewSet63
    arg,    \* the scalar arguments of the last call
    s, t, u,\* Set63 operands
    op,     \* the last operation applied ("init": none yet)
    r, r2,  \* Set63 results
    flag,   \* a boolean result as "true" / "false", "panic" for a fault
    n, n2,  \* numeric results
    ivs,    \* the (b, e) pairs a visitor was called with, in call order
    pq,     \* Cover's priority queue: the shape array and the heap of leaves
    tr,     \* a Trie
    m,      \* the reference map of the Trie's test: key -> last value put
    numrecs,\* the numrecs field of a cdf Header shared by the calls of Create
    calls,  \* per call of Create: its position, its local nr, its buf
    mem,    \* the backing arrays of the Set63 slices, in order of allocation
    hd      \* the slice headers of the caller's Set63 variables

vars ==
    <<elem, arg, s, t, u, op, r, r2, flag, n, n2, ivs, pq, tr, m, numrecs,
      calls, mem, hd>>

Universe == 0 .. (2^TopLevel - 1)

MaxInt64 == Word \div 2 - 1

\* the elements of a cell sequence
Elems(x) == UNION {begin(x[i]) .. (end(x[i]) - 1) : i \in 1 .. Len(x)}

B2S(b) == IF b THEN "true" ELSE "false"

NoResult ==
    /\ r = <<>>
    /\ r2 = <<>>
    /\ flag = "none"
    /\ n = 0
    /\ n2 = 0
    /\ ivs = <<>>
    /\ pq = [shape |-> <<>>, leaves |-> <<>>]
    /\ tr = ZeroTrie
    /\ m = <<>>
    /\ numrecs = 0
    /\ calls = <<>>
    /\ mem = <<>>
    /\ hd = <<>>

--------------------------------------------------------------------------
(* Spec: set algebra on two operands built by NewSet63 or Interval, with   *)
(* results fed back as operands                                            *)

\* NewSet63 of every membership mask over [0, MaskBits)
MaskInputs == {set6toSet63(mask) : mask \in SUBSET (0 .. MaskBits - 1)}

\* Interval(min, max) with both ends below MaskBits, or max the largest int64
IntervalArgs ==
    (0 .. MaskBits) \X ((-1 .. MaskBits - 1) \cup {MaxInt64})

IntervalInputs == {Interval(a[1], a[2]) : a \in IntervalArgs}

\* NewSet63 of every list of at most MaxLen elements below MaskBits, in any
\* order and with duplicates
ListInputs ==
    {NewSet63(e) : e \in UNION {[1 .. k -> 0 .. MaskBits - 1] : k \in 0 .. MaxLen}}

Inputs == MaskInputs \cup IntervalInputs \cup ListInputs

Init ==
    /\ s \in Inputs
    /\ t \in Inputs
    /\ u = <<>>
    /\ elem = <<>>
    /\ arg = <<>>
    /\ op = "init"
    /\ NoResult

DoUnion ==
    /\ op = "init"
    /\ r' = Union(s, t)
    /\ op' = "Union"
    /\ UNCHANGED <<mem, hd, numrecs, calls, tr, m, pq, elem, arg, s, t, u, r2, flag, n, n2, ivs>>

DoIntersection ==
    /\ op = "init"
    /\ r' = Intersection(s, t)
    /\ op' = "Intersection"
    /\ UNCHANGED <<mem, hd, numrecs, calls, tr, m, pq, elem, arg, s, t, u, r2, flag, n, n2, ivs>>

DoComplement ==
    /\ op = "init"
    /\ r' = Complement(s)
    /\ op' = "Complement"
    /\ UNCHANGED <<mem, hd, numrecs, calls, tr, m, pq, elem, arg, s, t, u, r2, flag, n, n2, ivs>>

DoIntersects ==
    /\ op = "init"
    /\ flag' = Intersects(s, t)
    /\ op' = "Intersects"
    /\ UNCHANGED <<mem, hd, numrecs, calls, tr, m, pq, elem, arg, s, t, u, r, r2, n, n2, ivs>>

DoEqual ==
    /\ op = "init"
    /\ flag' = B2S(Equal(s, t))
    /\ op' = "Equal"
    /\ UNCHANGED <<mem, hd, numrecs, calls, tr, m, pq, elem, arg, s, t, u, r, r2, n, n2, ivs>>

\* the caller keeps the returned set as its next receiver
KeepS ==
    /\ op \in {"Union", "Intersection", "Complement"}
    /\ s' = r
    /\ op' = "init"
    /\ r' = <<>>
    /\ UNCHANGED <<mem, hd, numrecs, calls, tr, m, pq, elem, arg, t, u, r2, flag, n, n2, ivs>>

\* the caller keeps the returned set as its next argument
KeepT ==
    /\ op \in {"Union", "Intersection", "Complement"}
    /\ t' = r
    /\ op' = "init"
    /\ r' = <<>>
    /\ UNCHANGED <<mem, hd, numrecs, calls, tr, m, pq, elem, s, arg, u, r2, flag, n, n2, ivs>>

\* the caller exchanges receiver and argument
Swap ==
    /\ op = "init"
    /\ s # t
    /\ s' = t
    /\ t' = s
    /\ UNCHANGED <<mem, hd, numrecs, calls, tr, m, pq, elem, arg, u, op, r, r2, flag, n, n2, ivs>>

\* the caller drops the result
Drop ==
    /\ op # "init"
    /\ op' = "init"
    /\ r' = <<>>
    /\ flag' = "none"
    /\ UNCHANGED <<mem, hd, numrecs, calls, tr, m, pq, elem, arg, s, t, u, r2, n, n2, ivs>>

Next ==
    \/ DoUnion
    \/ DoIntersection
    \/ DoComplement
    \/ DoIntersects
    \/ DoEqual
    \/ KeepS
    \/ KeepT
    \/ Swap
    \/ Drop

Spec == Init /\ [][Next]_vars

\* C1: every set produced by the constructors and operators, in any
\* sequence of applications, is canonical: unnormalized() returns nothing
\* for the operands and for the result, and no operation faults.
C1_Canonical ==
    /\ r # PanicSet
    /\ unnormalized(s) = <<>>
    /\ unnormalized(t) = <<>>
    /\ unnormalized(r) = <<>>

\* C1 witness: a Union result of several cells that is neither operand
C1_Witness ==
    /\ op = "Union"
    /\ Len(r) >= 3
    /\ r # s
    /\ r # t

\* C3: Union(A, B) holds exactly the elements of A or of B and is Equal to
\* the set NewSet63 builds from those elements.
C3_UnionElems ==
    op = "Union" =>
        /\ r # PanicSet
        /\ Elems(r) = Elems(s) \cup Elems(t)
        /\ Equal(r, set6toSet63(Elems(s) \cup Elems(t)))

\* C3 witness: a union of partially overlapping operands, neither inside
\* the other
C3_Witness ==
    /\ op = "Union"
    /\ Elems(s) \cap Elems(t) # {}
    /\ ~(Elems(s) \subseteq Elems(t))
    /\ ~(Elems(t) \subseteq Elems(s))
    /\ Len(r) >= 2

\* C4: Intersection(A, B) holds exactly the elements of both A and B and is
\* Equal to the set NewSet63 builds from those elements.
C4_IntersectionElems ==
    op = "Intersection" =>
        /\ r # PanicSet
        /\ Elems(r) = Elems(s) \cap Elems(t)
        /\ Equal(r, set6toSet63(Elems(s) \cap Elems(t)))

\* C4 witness: a non-empty intersection that is neither operand
C4_Witness ==
    /\ op = "Intersection"
    /\ Len(r) >= 2
    /\ r # s
    /\ r # t

\* C5: Complement(A) holds exactly the elements of the universe not in A;
\* the complement of the empty set is Interval(0, max int64) and the
\* complement of that interval is empty.
C5_ComplementElems ==
    op = "Complement" =>
        /\ Elems(r) = Universe \ Elems(s)
        /\ Elems(s) \cap Elems(r) = {}
        /\ (s = <<>> => Equal(r, Interval(0, MaxInt64)))
        /\ (Equal(s, Interval(0, MaxInt64)) => r = <<>>)

\* C5 witness: the complement of a set with a gap that ends below the top
C5_Witness ==
    /\ op = "Complement"
    /\ Len(s) >= 2
    /\ Len(r) >= 3
    /\ end(s[Len(s)]) < unity63

\* C6: Intersects(A, B) is true exactly when A and B share an element and
\* false otherwise; it never faults.
C6_IntersectsIffCommon ==
    op = "Intersects" =>
        flag = B2S(Elems(s) \cap Elems(t) # {})

\* C18: for sets produced by the constructors and operators, Equal(A, B) is
\* true exactly when A and B have the same elements.
C18_EqualIffSameElems ==
    op = "Equal" => flag = B2S(Elems(s) = Elems(t))

\* C18 witness: Equal has compared two different sets of the same number of
\* cells, at least two, that start with the same cell
C18_Witness ==
    /\ op = "Equal"
    /\ flag = "false"
    /\ Len(s) >= 2
    /\ Len(s) = Len(t)
    /\ s[1] = t[1]

--------------------------------------------------------------------------
(* SpecNew: one constructor call, NewSet63(elem...) or Interval(min, max), *)
(* then queries on the set it returned                                     *)

\* the lists handed to NewSet63: any order, duplicates, -1 as the negative
ElemLists == UNION {[1 .. k -> -1 .. MaxElem] : k \in 0 .. MaxLen}

\* the arguments of Interval: min from -1, max from -2 to the largest int64
IntervalCalls == (-1 .. MaxInt64) \X (-2 .. MaxInt64)

\* the queries of Contains: every element of the universe and -1, -2
Queries == -2 .. MaxInt64

Range(sq) == {sq[i] : i \in 1 .. Len(sq)}

InitNew ==
    /\ \/ elem \in ElemLists /\ arg = <<>>
       \/ elem = <<>> /\ arg \in IntervalCalls
    /\ s = <<>>
    /\ t = <<>>
    /\ u = <<>>
    /\ op = "init"
    /\ NoResult

\* s := NewSet63(elem...): the slice is sorted in place, then checked
DoNewSet63 ==
    /\ op = "init"
    /\ arg = <<>>
    /\ elem' = sortInt64(elem)
    /\ IF NewSet63(elem) = PanicSet
       THEN flag' = "panic" /\ s' = s
       ELSE flag' = flag /\ s' = NewSet63(elem)
    /\ op' = "NewSet63"
    /\ UNCHANGED <<mem, hd, numrecs, calls, tr, m, pq, arg, t, u, r, r2, n, n2, ivs>>

\* s := Interval(min, max)
DoInterval ==
    /\ op = "init"
    /\ arg # <<>>
    /\ IF Interval(arg[1], arg[2]) = PanicSet
       THEN flag' = "panic" /\ s' = s
       ELSE flag' = flag /\ s' = Interval(arg[1], arg[2])
    /\ op' = "Interval"
    /\ UNCHANGED <<mem, hd, numrecs, calls, tr, m, pq, elem, arg, t, u, r, r2, n, n2, ivs>>

Constructed == op \in {"NewSet63", "Interval"} /\ flag # "panic"

DoContains ==
    /\ Constructed
    /\ \E x \in Queries :
          /\ flag' = B2S(Contains(s, x))
          /\ n' = x
    /\ op' = "Contains"
    /\ UNCHANGED <<mem, hd, numrecs, calls, tr, m, pq, elem, arg, s, t, u, r, r2, n2, ivs>>

DoCount ==
    /\ Constructed
    /\ n' = Count(s)
    /\ op' = "Count"
    /\ UNCHANGED <<mem, hd, numrecs, calls, tr, m, pq, elem, arg, s, t, u, r, r2, flag, n2, ivs>>

DoForEachInterval ==
    /\ Constructed
    /\ ivs' = ForEachInterval(s)
    /\ op' = "ForEachInterval"
    /\ UNCHANGED <<mem, hd, numrecs, calls, tr, m, pq, elem, arg, s, t, u, r, r2, flag, n, n2>>

NextNew ==
    \/ DoNewSet63
    \/ DoInterval
    \/ DoContains
    \/ DoCount
    \/ DoForEachInterval

SpecNew == InitNew /\ [][NextNew]_vars

\* C2: for a list E of non-negative integers, NewSet63(E).Contains(x) is
\* true exactly when x is an element of E, and false for every x < 0.
C2_ContainsIffElement ==
    (op = "Contains" /\ arg = <<>>) =>
        /\ flag = B2S(n \in Range(elem))
        /\ (n < 0 => flag = "false")

\* C2 witness: a hit inside a merged cell of a set built from an unsorted
\* list with a duplicate
C2_Witness ==
    /\ op = "Contains"
    /\ arg = <<>>
    /\ flag = "true"
    /\ Len(elem) = 3
    /\ Cardinality(Range(elem)) = 2
    /\ Len(s) = 1
    /\ n # begin(s[1])

\* C10: for 0 <= min, Interval(min, max) holds exactly the integers x with
\* min <= x <= max: its Count is max-min+1 when min <= max, ForEachInterval
\* visits the single interval (min, max), and it is empty when min > max.
C10_IntervalExact ==
    (arg # <<>> /\ op # "init" /\ arg[1] >= 0) =>
        /\ flag # "panic"
        /\ Elems(s) = {x \in Universe : arg[1] <= x /\ x <= arg[2]}
        /\ (arg[1] > arg[2] => s = <<>>)
        /\ (op = "Count" =>
               n = IF arg[1] <= arg[2] THEN arg[2] - arg[1] + 1 ELSE 0)
        /\ (op = "ForEachInterval" =>
               ivs = IF arg[1] <= arg[2] THEN <<arg>> ELSE <<>>)
        /\ (op = "Contains" =>
               flag = B2S(arg[1] <= n /\ n <= arg[2]))

\* C10 witness: an unaligned interval of several cells visited as one pair
C10_Witness ==
    /\ op = "ForEachInterval"
    /\ arg # <<>>
    /\ Len(s) >= 3
    /\ ivs = <<arg>>

\* C11: NewSet63 faults exactly when some element of its list is negative,
\* wherever it stands in the list, and Interval faults exactly when min < 0;
\* a faulting call returns no set and every other call returns normally.
C11_NegativeFaults ==
    /\ (op = "NewSet63" =>
           /\ flag = (IF \E i \in 1 .. Len(elem) : elem[i] < 0
                      THEN "panic" ELSE "none")
           /\ (flag = "panic" => s = <<>>))
    /\ (op = "Interval" =>
           /\ flag = (IF arg[1] < 0 THEN "panic" ELSE "none")
           /\ (flag = "panic" => s = <<>>))

\* C11 witness: NewSet63 has faulted on a list of three distinct elements of
\* which one is negative
C11_Witness ==
    /\ op = "NewSet63"
    /\ flag = "panic"
    /\ Len(elem) = 3
    /\ Cardinality(Range(elem)) = 3
    /\ Cardinality({i \in 1 .. 3 : elem[i] < 0}) = 1

\* C30: NewSet63 leaves the caller's element list as it was: the same
\* elements in the same order after the call as before it.
C30_ListUnchanged ==
    [][(op = "init" /\ op' = "NewSet63") => elem' = elem]_vars

--------------------------------------------------------------------------
(* SpecLaws: three operands; each action evaluates both sides of one law   *)

\* NewSet63 of every mask over [0, LawBits), and the complements of these
LawInputs ==
    LET small == {set6toSet63(mask) : mask \in SUBSET (0 .. LawBits - 1)}
    IN  small \cup {Complement(x) : x \in small}

InitLaws ==
    /\ s \in LawInputs
    /\ t \in LawInputs
    /\ u \in LawInputs
    /\ elem = <<>>
    /\ arg = <<>>
    /\ op = "init"
    /\ NoResult

UnionCommutes ==
    /\ op = "init"
    /\ r' = Union(s, t)
    /\ r2' = Union(t, s)
    /\ op' = "UnionCommutes"
    /\ UNCHANGED <<mem, hd, numrecs, calls, tr, m, pq, elem, arg, s, t, u, flag, n, n2, ivs>>

UnionAssociates ==
    /\ op = "init"
    /\ r' = Union(Union(s, t), u)
    /\ r2' = Union(s, Union(t, u))
    /\ op' = "UnionAssociates"
    /\ UNCHANGED <<mem, hd, numrecs, calls, tr, m, pq, elem, arg, s, t, u, flag, n, n2, ivs>>

UnionIdempotent ==
    /\ op = "init"
    /\ r' = Union(s, s)
    /\ r2' = s
    /\ op' = "UnionIdempotent"
    /\ UNCHANGED <<mem, hd, numrecs, calls, tr, m, pq, elem, arg, s, t, u, flag, n, n2, ivs>>

IntersectionCommutes ==
    /\ op = "init"
    /\ r' = Intersection(s, t)
    /\ r2' = Intersection(t, s)
    /\ op' = "IntersectionCommutes"
    /\ UNCHANGED <<mem, hd, numrecs, calls, tr, m, pq, elem, arg, s, t, u, flag, n, n2, ivs>>

IntersectionAssociates ==
    /\ op = "init"
    /\ r' = Intersection(Intersection(s, t), u)
    /\ r2' = Intersection(s, Intersection(t, u))
    /\ op' = "IntersectionAssociates"
    /\ UNCHANGED <<mem, hd, numrecs, calls, tr, m, pq, elem, arg, s, t, u, flag, n, n2, ivs>>

IntersectionIdempotent ==
    /\ op = "init"
    /\ r' = Intersection(s, s)
    /\ r2' = s
    /\ op' = "IntersectionIdempotent"
    /\ UNCHANGED <<mem, hd, numrecs, calls, tr, m, pq, elem, arg, s, t, u, flag, n, n2, ivs>>

DeMorgan ==
    /\ op = "init"
    /\ r' = Complement(Union(s, t))
    /\ r2' = Intersection(Complement(s), Complement(t))
    /\ op' = "DeMorgan"
    /\ UNCHANGED <<mem, hd, numrecs, calls, tr, m, pq, elem, arg, s, t, u, flag, n, n2, ivs>>

CountComplement ==
    /\ op = "init"
    /\ n' = Count(s)
    /\ n2' = Count(Complement(s))
    /\ op' = "CountComplement"
    /\ UNCHANGED <<mem, hd, numrecs, calls, tr, m, pq, elem, arg, s, t, u, r, r2, flag, ivs>>

NextLaws ==
    \/ UnionCommutes
    \/ UnionAssociates
    \/ UnionIdempotent
    \/ IntersectionCommutes
    \/ IntersectionAssociates
    \/ IntersectionIdempotent
    \/ DeMorgan
    \/ CountComplement

SpecLaws == InitLaws /\ [][NextLaws]_vars

AlgebraLaws ==
    {"UnionCommutes", "UnionAssociates", "UnionIdempotent",
     "IntersectionCommutes", "IntersectionAssociates",
     "IntersectionIdempotent"}

\* C7: Union and Intersection are commutative, associative and idempotent,
\* the two sides of each law compared by Equal.
C7_AlgebraLaws ==
    op \in AlgebraLaws => (r # PanicSet /\ r2 # PanicSet /\ Equal(r, r2))

\* C7 witness: associativity of Union on three different non-empty operands
\* none of which is the result
C7_Witness ==
    /\ op = "UnionAssociates"
    /\ s # <<>> /\ t # <<>> /\ u # <<>>
    /\ s # t /\ t # u /\ s # u
    /\ r \notin {s, t, u}
    /\ Len(r) >= 2

\* C8: De Morgan: Complement(Union(A, B)) is Equal to
\* Intersection(Complement(A), Complement(B)).
C8_DeMorgan ==
    op = "DeMorgan" => Equal(r, r2)

\* C8 witness: De Morgan on overlapping operands with a non-empty result
C8_Witness ==
    /\ op = "DeMorgan"
    /\ Elems(s) \cap Elems(t) # {}
    /\ s # t
    /\ Len(r) >= 2

\* C9: Count(A) + Count(Complement(A)) is exactly the size of the universe
\* (2^63 in the code), without wrapping, and Count(A) is the number of
\* elements of A; this includes the empty and the full set.
C9_CountComplement ==
    op = "CountComplement" =>
        /\ n + n2 = unity63
        /\ n = Cardinality(Elems(s))

\* C9 witness: the full set, whose count is the whole universe
C9_Witness ==
    /\ op = "CountComplement"
    /\ s = <<unity63>>
    /\ n = unity63
    /\ n2 = 0

--------------------------------------------------------------------------
(* SpecCover: one call s.Cover(maxSize, minGrain), one action per turn of  *)
(* the shave loop; arg holds <<maxSize, minGrain>> as passed, n the local  *)
(* maxSize after line 144                                                  *)

\* receivers: NewSet63 of every mask over [0, CoverBits) and its complement
CoverInputs ==
    LET masks == {set6toSet63(mask) : mask \in SUBSET (0 .. CoverBits - 1)}
    IN  masks \cup {Complement(x) : x \in masks}

\* maxSize from -1 to MaxSizeArg, minGrain any word
CoverArgs == (-1 .. MaxSizeArg) \X Words

InitCover ==
    /\ s \in CoverInputs
    /\ arg \in CoverArgs
    /\ t = <<>>
    /\ u = <<>>
    /\ elem = <<>>
    /\ op = "init"
    /\ NoResult

\* Cover up to the shave loop: the early return, maxSize, shape, the heap
CoverEnter ==
    /\ op = "init"
    /\ IF IsEmpty(s)
       THEN /\ r' = <<>>
            /\ op' = "Cover"
            /\ UNCHANGED <<n, pq>>
       ELSE /\ n' = IF arg[1] < 1 \/ Len(s) < arg[1] THEN Len(s) ELSE arg[1]
            /\ pq' = pushLeaves(
                        [shape |-> shape(s, 0, Len(s), unity63, arg[2], <<>>).sh,
                         leaves |-> <<>>], 0)
            /\ op' = "shave"
            /\ r' = r
    /\ UNCHANGED <<mem, hd, numrecs, calls, tr, m, elem, arg, s, t, u, r2, flag, n2, ivs>>

\* the leaf the next turn of the loop pops
Popped == pq.shape[heapPop(pq).x + 1]

InLoop == op = "shave" /\ Len(pq.leaves) > 1

\* mutant: a merge under size pressure only when the queue exceeds maxSize
MergeTest_Strict == Popped.g = 0 \/ Len(heapPop(pq).pq.leaves) > n

\* the test of line 180, on the queue after the pop
MergeTest == Popped.g = 0 \/ Len(heapPop(pq).pq.leaves) >= n

\* a turn that pops an invalidated leaf
ShaveSkip ==
    /\ InLoop
    /\ Popped.c = 0
    /\ pq' = heapPop(pq).pq
    /\ UNCHANGED <<mem, hd, numrecs, calls, tr, m, elem, arg, s, t, u, op, r, r2, flag, n, n2, ivs>>

\* a turn that merges the popped leaf and its sibling into their parent
ShaveMerge ==
    /\ InLoop
    /\ Popped.c # 0
    /\ MergeTest
    /\ Popped.ip # -1
    /\ IF Popped.ip = 0
       THEN /\ flag' = "panic"
            /\ op' = "Cover"
            /\ pq' = heapPop(pq).pq
       ELSE /\ pq' = heapPush(blowup(heapPop(pq).pq, Popped.ip), Popped.ip)
            /\ UNCHANGED <<op, flag>>
    /\ UNCHANGED <<mem, hd, numrecs, calls, tr, m, elem, arg, s, t, u, r, r2, n, n2, ivs>>

\* a turn that pops a leaf without parent: Cover returns that one cell
ShaveRoot ==
    /\ InLoop
    /\ Popped.c # 0
    /\ MergeTest
    /\ Popped.ip = -1
    /\ r' = <<Popped.c>>
    /\ pq' = heapPop(pq).pq
    /\ op' = "Cover"
    /\ UNCHANGED <<mem, hd, numrecs, calls, tr, m, elem, arg, s, t, u, r2, flag, n, n2, ivs>>

\* getLeaves from the last entry of the shape array
Collected(q) == getLeaves(q, Len(q.shape) - 1)

\* a turn that breaks out of the loop, and the collection after it
ShaveBreak ==
    /\ InLoop
    /\ Popped.c # 0
    /\ ~MergeTest
    /\ pq' = heapPop(pq).pq
    /\ IF Collected(pq') = PanicSet
       THEN flag' = "panic" /\ r' = r
       ELSE flag' = flag /\ r' = Collected(pq')
    /\ op' = "Cover"
    /\ UNCHANGED <<mem, hd, numrecs, calls, tr, m, elem, arg, s, t, u, r2, n, n2, ivs>>

\* the loop ends with at most one leaf queued, and the collection after it
CoverCollect ==
    /\ op = "shave"
    /\ Len(pq.leaves) <= 1
    /\ IF Collected(pq) = PanicSet
       THEN flag' = "panic" /\ r' = r
       ELSE flag' = flag /\ r' = Collected(pq)
    /\ op' = "Cover"
    /\ UNCHANGED <<mem, hd, numrecs, calls, tr, m, elem, arg, s, t, u, r2, n, n2, ivs, pq>>

NextCover ==
    \/ CoverEnter
    \/ ShaveSkip
    \/ ShaveMerge
    \/ ShaveRoot
    \/ ShaveBreak
    \/ CoverCollect

SpecCover == InitCover /\ [][NextCover]_vars

\* Cover has returned a set
Covered == op = "Cover" /\ flag # "panic"

\* C12: the result C of Cover(S, maxSize, minGrain), for every maxSize and
\* every minGrain, is a superset of S: Intersection(C, S) is Equal to S and
\* Union(C, S) is Equal to C.
C12_Superset ==
    Covered =>
        /\ Equal(Intersection(r, s), s)
        /\ Equal(Union(r, s), r)

\* C13: for every maxSize > 0 and every minGrain, Cover returns at most
\* maxSize cells.
C13_SizeBound ==
    (op = "Cover" /\ arg[1] > 0) =>
        /\ flag # "panic"
        /\ Len(r) <= arg[1]

\* C13 witness: a set of more than maxSize cells, maxSize at least 2 and no
\* grain limit, covered by exactly maxSize cells
C13_Witness ==
    /\ op = "Cover"
    /\ arg[1] >= 2
    /\ arg[2] <= 1
    /\ Len(s) > arg[1]
    /\ Len(r) = arg[1]

\* C14: for every minGrain not larger than the universe size, every cell of
\* the result of Cover has size (lsb) at least minGrain.
C14_GrainBound ==
    (Covered /\ arg[2] <= unity63) =>
        \A i \in 1 .. Len(r) : lsb(r[i]) >= arg[2]

\* C15: the result of Cover, for every maxSize and every minGrain, is
\* canonical: unnormalized() returns nothing for it.
C15_CoverCanonical ==
    Covered => unnormalized(r) = <<>>

\* C16: a turn of the shave loop that merges because the popped leaf's
\* waste-gain is zero is free: the live leaves cover as many elements
\* right after the merge as right before it.
C16_ZeroGainFree ==
    [][(InLoop /\ Popped.c # 0 /\ Popped.g = 0 /\ Popped.ip > 0)
          => Count(Collected(pq')) = Count(Collected(pq))]_vars

\* C17: for a non-empty S, every maxSize and every minGrain from a quarter
\* of the word range (2^62 of 2^64) up, doubling overflow included, Cover
\* returns exactly the single universe cell.
C17_TopGrain ==
    (op = "Cover" /\ s # <<>> /\ arg[2] >= unity63 \div 2) =>
        /\ flag # "panic"
        /\ r = <<unity63>>

\* C29: without size pressure (maxSize < 1 or maxSize >= len(S)) and without
\* grain constraint (minGrain <= 1) the cover is exact: Cover returns a set
\* Equal to S, so the waste Count(C) - Count(S) is zero.
C29_ExactWithoutPressure ==
    (op = "Cover" /\ (arg[1] < 1 \/ arg[1] >= Len(s)) /\ arg[2] <= 1) =>
        /\ flag # "panic"
        /\ Equal(r, s)
        /\ Count(r) = Count(s)

--------------------------------------------------------------------------
(* SpecIter: one call of ForEach or ForEachInterval, one action per call   *)
(* of the visitor, which answers true or false.  n and n2 hold ForEach's   *)
(* cell number and element, t and arg ForEachInterval's remaining slice    *)
(* and <<sb, se>>, ivs the visitor's arguments so far, flag its last       *)
(* answer.                                                                 *)

\* receivers: NewSet63 of every mask over [0, IterBits) and its complement
IterInputs ==
    LET masks == {set6toSet63(mask) : mask \in SUBSET (0 .. IterBits - 1)}
    IN  masks \cup {Complement(x) : x \in masks}

InitIter ==
    /\ s \in IterInputs
    /\ t = <<>>
    /\ u = <<>>
    /\ elem = <<>>
    /\ arg = <<>>
    /\ op = "init"
    /\ NoResult

\* ForEach up to the first call of the visitor
ForEachEnter ==
    /\ op = "init"
    /\ LET p == IF s = <<>> THEN [done |-> TRUE, k |-> 0, i |-> 0]
                ELSE seek(s, 0, begin(s[1]))
       IN  /\ op' = IF p.done THEN "ForEachDone" ELSE "ForEach"
           /\ n' = p.k
           /\ n2' = p.i
    /\ UNCHANGED <<mem, hd, numrecs, calls, tr, m, elem, arg, s, t, u, r, r2, flag, ivs, pq>>

\* f(int64(i)) and the loops up to the next call
ForEachCall ==
    /\ op = "ForEach"
    /\ ivs' = Append(ivs, i64(n2))
    /\ \E ret \in BOOLEAN :
          LET p == resume(s, n, n2, ret)
          IN  /\ flag' = B2S(ret)
              /\ op' = IF p.done THEN "ForEachDone" ELSE "ForEach"
              /\ n' = p.k
              /\ n2' = p.i
    /\ UNCHANGED <<mem, hd, numrecs, calls, tr, m, elem, arg, s, t, u, r, r2, pq>>

\* ForEachInterval up to the first call of the visitor
ForEachIntervalEnter ==
    /\ op = "init"
    /\ LET h == headx(s)
       IN  /\ t' = h.st
           /\ arg' = <<h.b, h.e>>
           /\ op' = IF h.b # h.e THEN "ForEachInterval" ELSE "ForEachIntervalDone"
    /\ UNCHANGED <<mem, hd, numrecs, calls, tr, m, elem, s, u, r, r2, flag, n, n2, ivs, pq>>

\* f(int64(sb), int64(se - 1)) and the next headx
ForEachIntervalCall ==
    /\ op = "ForEachInterval"
    /\ ivs' = Append(ivs, <<i64(arg[1]), i64(u64(arg[2] - 1))>>)
    /\ \E ret \in BOOLEAN :
          /\ flag' = B2S(ret)
          /\ IF ret
             THEN LET h == headx(t)
                  IN  /\ t' = h.st
                      /\ arg' = <<h.b, h.e>>
                      /\ op' = IF h.b # h.e THEN "ForEachInterval"
                               ELSE "ForEachIntervalDone"
             ELSE /\ op' = "ForEachIntervalDone"
                  /\ UNCHANGED <<t, arg>>
    /\ UNCHANGED <<mem, hd, numrecs, calls, tr, m, elem, s, u, r, r2, n, n2, pq>>

NextIter ==
    \/ ForEachEnter
    \/ ForEachCall
    \/ ForEachIntervalEnter
    \/ ForEachIntervalCall

SpecIter == InitIter /\ [][NextIter]_vars

\* C19: ForEach visits elements in strictly increasing order, and with a
\* visitor that always answers true it visits exactly the elements of the
\* set, each once; on the empty set it never calls the visitor.
C19_ForEachAscending ==
    /\ (op \in {"ForEach", "ForEachDone"} =>
           \A i \in 1 .. Len(ivs) - 1 : ivs[i] < ivs[i + 1])
    /\ ((op = "ForEachDone" /\ flag # "false") =>
           /\ ivs = ascending(Elems(s))
           /\ (s = <<>> => ivs = <<>>))

\* C19 witness: ForEach has finished on a set of two runs, one of several
\* cells, with every answer true
C19_Witness ==
    /\ op = "ForEachDone"
    /\ flag = "true"
    /\ Len(s) >= 3
    /\ Len(ivs) >= 4
    /\ \E i \in 1 .. Len(s) - 1 : end(s[i]) < begin(s[i + 1])
    /\ \E i \in 1 .. Len(s) - 1 : end(s[i]) = begin(s[i + 1])

\* C20: ForEachInterval visits closed intervals (b, e), b <= e, in strictly
\* increasing order, disjoint and not adjacent (the next b exceeds the
\* previous e + 1), each a maximal run of the set; with a visitor that
\* always answers true they hold together exactly the elements of the set.
C20_MaximalRuns ==
    /\ (op \in {"ForEachInterval", "ForEachIntervalDone"} =>
           /\ \A i \in 1 .. Len(ivs) :
                 /\ ivs[i][1] <= ivs[i][2]
                 /\ (ivs[i][1] .. ivs[i][2]) \subseteq Elems(s)
                 /\ (ivs[i][1] - 1) \notin Elems(s)
                 /\ (ivs[i][2] + 1) \notin Elems(s)
           /\ \A i \in 1 .. Len(ivs) - 1 : ivs[i + 1][1] > ivs[i][2] + 1)
    /\ ((op = "ForEachIntervalDone" /\ flag # "false") =>
           UNION {ivs[i][1] .. ivs[i][2] : i \in 1 .. Len(ivs)} = Elems(s))

\* C20 witness: ForEachInterval has finished with every answer true on a
\* set of more cells than runs, and has visited at least two intervals
C20_Witness ==
    /\ op = "ForEachIntervalDone"
    /\ flag = "true"
    /\ Len(ivs) >= 2
    /\ Len(s) > Len(ivs)

\* C27: ForEach and ForEachInterval stop at the first false: once the
\* visitor has answered false the traversal is over and no further call is
\* made, and what was visited up to then was visited in increasing order
\* with no element (no interval) of the set skipped.
C27_StopAtFirstFalse ==
    /\ (flag = "false" => op \in {"ForEachDone", "ForEachIntervalDone"})
    /\ ((op \in {"ForEach", "ForEachDone"} /\ ivs # <<>>) =>
           /\ \A i \in 1 .. Len(ivs) - 1 : ivs[i] < ivs[i + 1]
           /\ {x \in Elems(s) : x <= ivs[Len(ivs)]} = Range(ivs))
    /\ ((op \in {"ForEachInterval", "ForEachIntervalDone"} /\ ivs # <<>>) =>
           /\ \A i \in 1 .. Len(ivs) - 1 : ivs[i][2] < ivs[i + 1][1]
           /\ {x \in Elems(s) : x <= ivs[Len(ivs)][2]}
                 = UNION {ivs[i][1] .. ivs[i][2] : i \in 1 .. Len(ivs)})

\* C27 witness: ForEach has stopped on a false answer inside a cell, after
\* at least two elements and with elements of later cells still unvisited
C27_Witness ==
    /\ op = "ForEachDone"
    /\ flag = "false"
    /\ Len(ivs) >= 2
    /\ \E k \in 1 .. Len(s) - 1 :
          /\ begin(s[k]) <= ivs[Len(ivs)]
          /\ ivs[Len(ivs)] < end(s[k]) - 1

--------------------------------------------------------------------------
(* SpecCell: the cell63 methods on a pair of cells c, d held in arg; n and *)
(* n2 receive c.parent() and c.sibling()                                   *)

\* every dyadic interval of the universe: the non-zero words
Cells == Words \ {0}

InitCell ==
    /\ arg \in Cells \X Cells
    /\ s = <<>>
    /\ t = <<>>
    /\ u = <<>>
    /\ elem = <<>>
    /\ op = "init"
    /\ NoResult

\* c.contains(d)
DoCellContains ==
    /\ op = "init"
    /\ flag' = B2S(contains(arg[1], arg[2]))
    /\ op' = "contains"
    /\ UNCHANGED <<mem, hd, numrecs, calls, tr, m, elem, arg, s, t, u, r, r2, n, n2, ivs, pq>>

\* c.parent() and c.sibling()
DoCellFamily ==
    /\ op = "init"
    /\ n' = parent(arg[1])
    /\ n2' = sibling(arg[1])
    /\ op' = "family"
    /\ UNCHANGED <<mem, hd, numrecs, calls, tr, m, elem, arg, s, t, u, r, r2, flag, ivs, pq>>

NextCell ==
    \/ DoCellContains
    \/ DoCellFamily

SpecCell == InitCell /\ [][NextCell]_vars

\* the elements of one cell
Span1(c) == begin(c) .. (end(c) - 1)

\* C22: for every pair of cells c, d, c.contains(d) is true exactly when
\* d's range is nested in c's: c.begin() <= d.begin() and d.end() <= c.end();
\* in particular c.contains(c).
C22_ContainsIffNested ==
    op = "contains" =>
        /\ flag = B2S(begin(arg[1]) <= begin(arg[2]) /\ end(arg[2]) <= end(arg[1]))
        /\ (arg[1] = arg[2] => flag = "true")

\* C23: for c below the universe level, c.parent() contains c and
\* c.sibling(), c.sibling().parent() = c.parent(), and c.sibling() is the
\* other half of c.parent(): it differs from c, its sibling is c, and the
\* two are the children of the parent; the universe cell is its own sibling
\* and its parent is zero.
C23_FamilyLaws ==
    op = "family" =>
        IF arg[1] = unity63
        THEN n = 0 /\ n2 = unity63
        ELSE /\ contains(n, arg[1])
             /\ contains(n, n2)
             /\ parent(n2) = n
             /\ n2 # arg[1]
             /\ sibling(n2) = arg[1]
             /\ {children(n)[1], children(n)[2]} = {arg[1], n2}
             /\ Span1(arg[1]) \cap Span1(n2) = {}
             /\ Span1(arg[1]) \cup Span1(n2) = Span1(n)

\* C23 witness: parent and sibling of a right-hand cell above level 0 and
\* two levels below the universe
C23_Witness ==
    /\ op = "family"
    /\ lsb(arg[1]) > 1
    /\ lsb(n) < unity63
    /\ n2 < arg[1]

--------------------------------------------------------------------------
(* SpecTrie: Put calls on a zero-value Trie, with the test's map m as the  *)
(* reference, then one Get or one ForEach.  n counts the Puts, arg is the  *)
(* key of Get and n2 its result, ivs the (key, value) pairs ForEach visits *)

\* the keys of Put: at most two bytes, each 0 or 1, the empty key included
PutKeys == UNION {[1 .. k -> 0 .. 1] : k \in 0 .. 2}

\* the keys of Get: at most two bytes, each 0, 1 or 2
GetKeys == UNION {[1 .. k -> 0 .. 2] : k \in 0 .. 2}

InitTrie ==
    /\ s = <<>>
    /\ t = <<>>
    /\ u = <<>>
    /\ elem = <<>>
    /\ arg = <<>>
    /\ op = "init"
    /\ NoResult

Building == op \in {"init", "Put"}

\* tr.Put(k, v) with v nil or a value not used before; m[k] = v
DoPut ==
    /\ Building
    /\ n < MaxPuts
    /\ \E k \in PutKeys, v \in {0, n + 1} :
          /\ tr' = Put(tr, k, v)
          /\ m' = (k :> v) @@ m
    /\ n' = n + 1
    /\ op' = "Put"
    /\ UNCHANGED <<mem, hd, numrecs, calls, elem, arg, s, t, u, r, r2, flag, n2, ivs, pq>>

\* tr.Get(k)
DoGet ==
    /\ Building
    /\ \E k \in GetKeys :
          /\ arg' = k
          /\ IF Get(tr, k) = GetPanic
             THEN flag' = "panic" /\ n2' = n2
             ELSE flag' = flag /\ n2' = Get(tr, k)
    /\ op' = "Get"
    /\ UNCHANGED <<mem, hd, numrecs, calls, elem, s, t, u, r, r2, n, ivs, pq, tr, m>>

\* tr.ForEach(f) with f returning true
DoTrieForEach ==
    /\ Building
    /\ ivs' = forEach(tr, <<>>)
    /\ op' = "TrieForEach"
    /\ UNCHANGED <<mem, hd, numrecs, calls, elem, arg, s, t, u, r, r2, flag, n, n2, pq, tr, m>>

NextTrie ==
    \/ DoPut
    \/ DoGet
    \/ DoTrieForEach

SpecTrie == InitTrie /\ [][NextTrie]_vars

\* the keys that exist: put, and last put with a non-nil value
Stored == {k \in DOMAIN m : m[k] # 0}

\* byte-wise order of keys: a proper prefix first, else the first differing
\* byte decides
KeyLess(a, b) ==
    LET c == commonPrefix(a, b)
    IN  IF c = Len(a) THEN c < Len(b)
        ELSE IF c = Len(b) THEN FALSE
        ELSE a[c + 1] < b[c + 1]

\* C24: after any sequence of Put calls on a zero-value Trie, Get(k)
\* returns the value of the most recent Put(k, v) for every key k that was
\* put, and nil for a key last put with nil.
C24_GetLastPut ==
    (op = "Get" /\ arg \in DOMAIN m) =>
        /\ flag # "panic"
        /\ n2 = m[arg]

\* C25: for every key that does not exist in the trie (never put, or last
\* put with nil), prefix or extension of a stored key or not, Get returns
\* nil and does not fault.
C25_GetAbsentNil ==
    (op = "Get" /\ arg \notin Stored) =>
        /\ flag # "panic"
        /\ n2 = 0

\* C26: ForEach with a visitor that returns true visits every key holding
\* a non-nil value exactly once, with that value, no other key, and the
\* keys in strictly increasing byte-wise order.
C26_ForEachSorted ==
    op = "TrieForEach" =>
        /\ {ivs[i][1] : i \in 1 .. Len(ivs)} = Stored
        /\ \A i \in 1 .. Len(ivs) : ivs[i][2] = m[ivs[i][1]]
        /\ \A i \in 1 .. Len(ivs) - 1 : KeyLess(ivs[i][1], ivs[i + 1][1])

\* C26 witness: ForEach has visited three keys, one a prefix of another,
\* in a trie from which nothing was removed
C26_Witness ==
    /\ op = "TrieForEach"
    /\ Len(ivs) = 3
    /\ \E i, j \in 1 .. 3 :
          /\ i # j
          /\ Len(ivs[i][1]) < Len(ivs[j][1])
          /\ commonPrefix(ivs[i][1], ivs[j][1]) = Len(ivs[i][1])

--------------------------------------------------------------------------
(* SpecCreate: two calls of Create(rw, h) on one fully defined Header h,   *)
(* interleaved statement by statement.  The accesses to h.numrecs are not  *)
(* synchronised; each one reads or writes the whole int32.  n holds the    *)
(* value of h.numrecs before the calls.                                    *)

\* the value of numrecs in a header written for streaming
STREAMING == -1

Callers == 1 .. 2

\* buf before WriteHeader has filled it
NoImage == "none"

InitCreate ==
    /\ numrecs \in STREAMING .. MaxNumRecs
    /\ n = numrecs
    /\ r = <<>>
    /\ r2 = <<>>
    /\ flag = "none"
    /\ n2 = 0
    /\ ivs = <<>>
    /\ pq = [shape |-> <<>>, leaves |-> <<>>]
    /\ tr = ZeroTrie
    /\ m = <<>>
    /\ calls = [p \in Callers |-> [pc |-> "nr", nr |-> 0, buf |-> NoImage]]
    /\ mem = <<>>
    /\ hd = <<>>
    /\ s = <<>>
    /\ t = <<>>
    /\ u = <<>>
    /\ elem = <<>>
    /\ arg = <<>>
    /\ op = "Create"

Rest == <<elem, arg, s, t, u, op, r, r2, flag, n, n2, ivs, pq, tr, m, mem, hd>>

\* nr := h.numrecs
CreateSave(p) ==
    /\ calls[p].pc = "nr"
    /\ calls' = [calls EXCEPT ![p].nr = numrecs, ![p].pc = "streaming"]
    /\ UNCHANGED <<numrecs, Rest>>

\* h.numrecs = _STREAMING
CreateSetStreaming(p) ==
    /\ calls[p].pc = "streaming"
    /\ numrecs' = STREAMING
    /\ calls' = [calls EXCEPT ![p].pc = "WriteHeader"]
    /\ UNCHANGED Rest

\* h.WriteHeader(&buf): the image holds the numrecs field as it is now
CreateWriteHeader(p) ==
    /\ calls[p].pc = "WriteHeader"
    /\ calls' = [calls EXCEPT ![p].buf = numrecs, ![p].pc = "restore"]
    /\ UNCHANGED <<numrecs, Rest>>

\* h.numrecs = nr
CreateRestore(p) ==
    /\ calls[p].pc = "restore"
    /\ numrecs' = calls[p].nr
    /\ calls' = [calls EXCEPT ![p].pc = "WriteAt"]
    /\ UNCHANGED Rest

\* rw.WriteAt(buf.Bytes(), 0) and the return of the File
CreateWriteAt(p) ==
    /\ calls[p].pc = "WriteAt"
    /\ calls' = [calls EXCEPT ![p].pc = "done"]
    /\ UNCHANGED <<numrecs, Rest>>

NextCreate ==
    \E p \in Callers :
        \/ CreateSave(p)
        \/ CreateSetStreaming(p)
        \/ CreateWriteHeader(p)
        \/ CreateRestore(p)
        \/ CreateWriteAt(p)

SpecCreate == InitCreate /\ [][NextCreate]_vars

\* C28: for every interleaving of two Create calls on one Header, each call
\* writes a header image whose numrecs field is -1, and once both calls
\* have returned the Header's numrecs is what it was before the calls.
C28_SharedHeader ==
    /\ \A p \in Callers :
          calls[p].pc = "done" => calls[p].buf = STREAMING
    /\ ((\A p \in Callers : calls[p].pc = "done") => numrecs = n)

--------------------------------------------------------------------------
(* SpecAlias: the Set63 operations on the heap.  A Set63 is a slice: a     *)
(* header (backing array, length) over an array of cells; every Set63 the  *)
(* package hands out starts at the first cell of its array, so the array's *)
(* length is the slice's capacity.  mem holds the arrays, hd the headers   *)
(* of the caller's variables s, t (built by NewSet63) and u, v (assigned   *)
(* the results of a first and of a later call); the variables s, t, u and  *)
(* r hold the cells these four had when they were assigned, n counts the   *)
(* calls that return a set.                                                *)

\* the operands are built from the subsets of [0, AliasBits)
AliasBits == 3

hdr(arr, len) == [arr |-> arr, len |-> len]

\* the nil slice, and an empty slice literal: no backing array
nilSet63 == hdr(0, 0)

\* the header left when the call panicked
PanicHdr == hdr(-1, 0)

\* the cells a slice shows
cells(mm, h) == IF h.arr = 0 THEN <<>> ELSE SubSeq(mm[h.arr], 1, h.len)

cap(mm, h) == IF h.arr = 0 THEN 0 ELSE Len(mm[h.arr])

\* make(Set63, 0, c): a new zeroed array of c cells, and a slice of length 0
makeSet63(mm, c) ==
    [mem |-> Append(mm, [i \in 1 .. c |-> 0]), h |-> hdr(Len(mm) + 1, 0)]

\* append(h, x...): in place while the capacity lasts, else into a new
\* array holding a copy; the new array is as long as the result needs
appendCells(mm, h, x) ==
    IF x = <<>> THEN [mem |-> mm, h |-> h]
    ELSE IF h.len + Len(x) <= cap(mm, h)
    THEN LET old == mm[h.arr]
             new == [i \in 1 .. Len(old) |->
                        IF i > h.len /\ i <= h.len + Len(x)
                        THEN x[i - h.len] ELSE old[i]]
         IN  [mem |-> [mm EXCEPT ![h.arr] = new],
              h |-> hdr(h.arr, h.len + Len(x))]
    ELSE [mem |-> Append(mm, cells(mm, h) \o x),
          h |-> hdr(Len(mm) + 1, h.len + Len(x))]

\* a result r built by appends onto make(Set63, 0, c)
built(mm, c, x) ==
    IF x = PanicSet THEN [mem |-> makeSet63(mm, c).mem, h |-> PanicHdr]
    ELSE LET a == makeSet63(mm, c) IN appendCells(a.mem, a.h, x)

\* NewSet63(elem...), elem without negative elements
NewSet63Mem(mm, e) ==
    IF Len(e) = 0 THEN [mem |-> mm, h |-> nilSet63]
    ELSE built(mm, Len(e), NewSet63(e))

\* mutant: the result is built in the receiver's array, r := s[:0]
UnionMem_InPlace(mm, hs, ht) ==
    IF IsEmpty(cells(mm, ht)) THEN [mem |-> mm, h |-> hs]
    ELSE IF IsEmpty(cells(mm, hs)) THEN [mem |-> mm, h |-> ht]
    ELSE appendCells(mm, hdr(hs.arr, 0), Union(cells(mm, hs), cells(mm, ht)))

UnionMem(mm, hs, ht) ==
    IF IsEmpty(cells(mm, ht)) THEN [mem |-> mm, h |-> hs]
    ELSE IF IsEmpty(cells(mm, hs)) THEN [mem |-> mm, h |-> ht]
    ELSE built(mm, hs.len + ht.len, Union(cells(mm, hs), cells(mm, ht)))

IntersectionMem(mm, hs, ht) ==
    IF IsEmpty(cells(mm, ht)) THEN [mem |-> mm, h |-> ht]
    ELSE IF IsEmpty(cells(mm, hs)) THEN [mem |-> mm, h |-> hs]
    ELSE built(mm, IF hs.len > ht.len THEN ht.len ELSE hs.len,
               Intersection(cells(mm, hs), cells(mm, ht)))

ComplementMem(mm, hs) == built(mm, hs.len + 1, Complement(cells(mm, hs)))

\* the shave loop of Cover: the cell of a popped root, or the queue at the
\* loop's end
RECURSIVE shaveLoop(_, _)
shaveLoop(q, maxSize) ==
    IF Len(q.leaves) > 1
    THEN LET p == heapPop(q)
             c == p.pq.shape[p.x + 1]
         IN  IF c.c = 0 THEN shaveLoop(p.pq, maxSize)
             ELSE IF c.g = 0 \/ Len(p.pq.leaves) >= maxSize
             THEN IF c.ip = -1 THEN [kind |-> "root", c |-> c.c, q |-> p.pq]
                  ELSE IF c.ip = 0 THEN [kind |-> "panic", c |-> 0, q |-> p.pq]
                  ELSE shaveLoop(heapPush(blowup(p.pq, c.ip), c.ip), maxSize)
             ELSE [kind |-> "leaves", c |-> 0, q |-> p.pq]
    ELSE [kind |-> "leaves", c |-> 0, q |-> q]

CoverMem(mm, hs, maxSize, minGrain) ==
    LET x == cells(mm, hs)
    IN  IF IsEmpty(x) THEN [mem |-> mm, h |-> nilSet63]
        ELSE LET sz == IF maxSize < 1 \/ Len(x) < maxSize
                       THEN Len(x) ELSE maxSize
                 q0 == pushLeaves(
                          [shape |-> shape(x, 0, Len(x), unity63, minGrain,
                                           <<>>).sh,
                           leaves |-> <<>>], 0)
                 o  == shaveLoop(q0, sz)
             IN  IF o.kind = "panic" THEN [mem |-> mm, h |-> PanicHdr]
                 ELSE IF o.kind = "root" THEN built(mm, 1, <<o.c>>)
                 ELSE built(mm, Len(o.q.leaves),
                            getLeaves(o.q, Len(o.q.shape) - 1))

\* Span
Span(x) ==
    IF Len(x) = 0 THEN <<0, -1>>
    ELSE <<i64(begin(x[1])), i64(u64(end(x[Len(x)]) - 1))>>

\* ForEach with a visitor that returns true: the calls f(i) made
RECURSIVE forEachFrom(_, _)
forEachFrom(x, p) ==
    IF p.done THEN <<>>
    ELSE <<i64(p.i)>> \o forEachFrom(x, resume(x, p.k, p.i, TRUE))

ForEach(x) ==
    IF x = <<>> THEN <<>> ELSE forEachFrom(x, seek(x, 0, begin(x[1])))

\* what the operations that return no set answer on receiver x, argument y
Answers(x, y) ==
    [Intersects      |-> Intersects(x, y),
     Equal           |-> Equal(x, y),
     Contains        |-> {e \in -1 .. AliasBits : Contains(x, e)},
     Count           |-> <<Count(x), Count(y)>>,
     Span            |-> <<Span(x), Span(y)>>,
     IsEmpty         |-> <<IsEmpty(x), IsEmpty(y)>>,
     ForEach         |-> <<ForEach(x), ForEach(y)>>,
     ForEachInterval |-> <<ForEachInterval(x), ForEachInterval(y)>>]

AliasInputs == {ascending(mask) : mask \in SUBSET (0 .. AliasBits - 1)}

\* Cover's <<maxSize, minGrain>>
AliasCoverArgs == {<<0, 1>>, <<1, 1>>, <<2, 2>>}

\* the variables that take the results, in the order of the calls
Results == <<"u", "v">>

\* the variables a call can name: s, t and the results assigned so far
Operands == {"s", "t"} \cup {Results[i] : i \in 1 .. n}

\* a call that returns a set can be made
CanCall == n < Len(Results)

InitAlias ==
    /\ \E es \in AliasInputs, et \in AliasInputs :
          LET a == NewSet63Mem(<<>>, es)
              b == NewSet63Mem(a.mem, et)
          IN  /\ mem = b.mem
              /\ hd = [s |-> a.h, t |-> b.h, u |-> nilSet63, v |-> nilSet63]
              /\ s = NewSet63(es)
              /\ t = NewSet63(et)
    /\ u = <<>>
    /\ r = <<>>
    /\ elem = <<>>
    /\ arg = <<>>
    /\ op = "init"
    /\ r2 = <<>>
    /\ flag = "none"
    /\ n = 0
    /\ n2 = 0
    /\ ivs = <<>>
    /\ pq = [shape |-> <<>>, leaves |-> <<>>]
    /\ tr = ZeroTrie
    /\ m = <<>>
    /\ numrecs = 0
    /\ calls = <<>>

\* the call named name has run to a; the caller assigns its result
Returned(name, a) ==
    /\ op' = name
    /\ n' = n + 1
    /\ mem' = a.mem
    /\ IF a.h = PanicHdr
       THEN /\ flag' = "panic"
            /\ UNCHANGED <<hd, u, r>>
       ELSE /\ flag' = "none"
            /\ hd' = [hd EXCEPT ![Results[n + 1]] = a.h]
            /\ u' = IF n = 0 THEN cells(a.mem, a.h) ELSE u
            /\ r' = IF n = 0 THEN r ELSE cells(a.mem, a.h)
    /\ UNCHANGED <<elem, arg, s, t, r2, n2, ivs, pq, tr, m, numrecs, calls>>

AliasUnion ==
    /\ CanCall
    /\ \E x \in Operands, y \in Operands :
          Returned("Union", UnionMem(mem, hd[x], hd[y]))

AliasIntersection ==
    /\ CanCall
    /\ \E x \in Operands, y \in Operands :
          Returned("Intersection", IntersectionMem(mem, hd[x], hd[y]))

AliasComplement ==
    /\ CanCall
    /\ \E x \in Operands :
          Returned("Complement", ComplementMem(mem, hd[x]))

AliasCover ==
    /\ CanCall
    /\ \E x \in Operands, a \in AliasCoverArgs :
          Returned("Cover", CoverMem(mem, hd[x], a[1], a[2]))

\* Intersects, Equal, Contains, Count, Span, IsEmpty, ForEach and
\* ForEachInterval on s and t: they store into no slice
AliasQuery ==
    /\ op # "Query"
    /\ r2' = Answers(cells(mem, hd.s), cells(mem, hd.t))
    /\ op' = "Query"
    /\ UNCHANGED <<mem, hd, elem, arg, s, t, u, r, flag, n, n2, ivs, pq, tr,
                   m, numrecs, calls>>

NextAlias ==
    \/ AliasUnion
    \/ AliasIntersection
    \/ AliasComplement
    \/ AliasCover
    \/ AliasQuery

SpecAlias == InitAlias /\ [][NextAlias]_vars

\* C21: Union, Intersection, Intersects, Complement, Contains, Count, Span,
\* Equal, ForEach, ForEachInterval and Cover leave the cells of their
\* receiver and argument unchanged, also when a result shares the backing
\* array of an operand: every variable still shows the cells it was
\* assigned, and the operations without a set result answer on s and t as
\* they answer on the cells s and t were built with.
C21_OperandsUnchanged ==
    /\ cells(mem, hd.s) = s
    /\ cells(mem, hd.t) = t
    /\ cells(mem, hd.u) = u
    /\ cells(mem, hd.v) = r
    /\ (r2 # <<>> => r2 = Answers(s, t))

\* a result shares the array of s, another call has built a different set
\* in a new array, and the operations without a set result have run since
C21_Witness ==
    /\ op = "Query"
    /\ ~CanCall
    /\ hd.u.arr # 0
    /\ hd.u.arr = hd.s.arr
    /\ hd.v.arr \notin {0, hd.s.arr, hd.t.arr}
    /\ r # s
    /\ hd.s.len < cap(mem, hd.s)

==========================================================================
